---------------------------- MODULE Spec2Model ----------------------------
(***************************************************************************)
(* Task lifecycle and job pipeline of the video service:                   *)
(*   was/app/video.py, was/app/video2.py  (generate, status, callback)     *)
(*   was/app/s3_client.py                 (object keys, upload)            *)
(*   worker/src/worker.py                 (queue consumer, per-job routine)*)
(* Strings that the code formats or parses (user ids, task ids, object     *)
(* keys) are sequences of one-character strings; enumerated values         *)
(* (statuses, program counters) are plain strings.                         *)
(***************************************************************************)
EXTENDS Integers, Sequences, FiniteSets, TLC

\* ------------------------------------------------------------------ bounds
MaxQueue == 2
MaxHistory == 3

\* --------------------------------------------------------------- constants
TTL == 86400

\* ------------------------------------------------------------ value spaces
EmptyStr == <<>>
Nil == "None"

Users == { <<"u","1">>, <<"u","2">> }
TaskIds == { <<"t","1">>, <<"t","2">> }
Prompt == <<"s","u","n","s","e","t">>
Inv == { "a", "b" }
Workers == { "w1", "w2" }
Handlers == { "video", "video2" }

\* shapes of the callback payload's URL fields:
\*   "one"      data.info.resultUrls = [url]
\*   "empty"    data.info.resultUrls = []
\*   "missing"  no resultUrls, no videoUrl
\*   "fallback" no resultUrls, data.videoUrl = url
UrlShapes == { "one", "empty", "missing", "fallback" }
Url == <<"h","t","t","p",":","/","/","x","/","v">>

VARIABLES
    regUser,     \* task_user:{id}   -> [val, ttl]
    regPrompt,   \* task_prompt:{id} -> [val, ttl]
    regStatus,   \* task_status:{id} -> [val, ttl]
    issued,      \* ids the generation service has handed out, with the requester
    cb,          \* callback handler invocations in flight
    queue,       \* the Redis list REDIS_QUEUE, index 1 = left end
    storage,     \* keys present in the S3 bucket
    videos,      \* rows written by insert_final_video: <<video_key, user_id>>
    wk,          \* worker loops
    gresp,       \* the latest generate request and its response
    kt,          \* an object key being built and parsed back (SpecKeys only)
    order        \* the first messages pushed on and popped off the queue
                 \* (recorded by SpecFifo only)

vars == << regUser, regPrompt, regStatus, issued, cb, queue, storage, videos, wk,
           gresp, kt, order >>

\* ------------------------------------------------------------- object keys
Mp4 == <<".","m","p","4">>
Jpg == <<".","j","p","g">>
Slash == <<"/">>
Underscore == <<"_">>
V1 == <<"v","1">>
V2 == <<"v","2">>
ProcessedSuffix == <<"_","p","r","o","c","e","s","s","e","d">>
Variants == { V1, V2 }

\* s3_client.upload_video: the key it writes
VideoKey(user_id, task_id, variant) ==
    LET filename == IF variant # EmptyStr
                    THEN task_id \o Underscore \o variant \o Mp4
                    ELSE task_id \o Mp4
    IN  user_id \o Slash \o filename

\* s3_client.upload_thumbnail: the key it writes
ThumbKey(user_id, task_id) == user_id \o Slash \o task_id \o Jpg

\* the f-strings of job_payload in the callback handlers
JobInputKey(user_id, task_id) == user_id \o Slash \o task_id \o Mp4
JobOutputKey(user_id, task_id) == user_id \o Slash \o task_id \o ProcessedSuffix \o Mp4

\* ----------------------------------------------------------------- listing
StrStartsWith(s, prefix) ==
    Len(s) >= Len(prefix) /\ SubSeq(s, 1, Len(prefix)) = prefix
StrEndsWith(s, suffix) ==
    Len(s) >= Len(suffix) /\ SubSeq(s, Len(s) - Len(suffix) + 1, Len(s)) = suffix

\* position of the last occurrence of the one-character string c in s, or 0
LastIndexOf(s, c) ==
    IF \E n \in 1..Len(s) : s[n] = c
    THEN CHOOSE n \in 1..Len(s) : s[n] = c /\ \A m \in (n+1)..Len(s) : s[m] # c
    ELSE 0

\* key.split("/")[-1]
Filename(key) == SubSeq(key, LastIndexOf(key, "/") + 1, Len(key))

\* s.replace(old, ""): every occurrence, left to right
RECURSIVE StrRemove(_, _)
StrRemove(s, old) ==
    IF Len(s) < Len(old) THEN s
    ELSE IF SubSeq(s, 1, Len(old)) = old
    THEN StrRemove(SubSeq(s, Len(old) + 1, Len(s)), old)
    ELSE <<s[1]>> \o StrRemove(Tail(s), old)

\* base.rsplit("_", 1): the parts before and after the last underscore
RSplitHead(base) == SubSeq(base, 1, LastIndexOf(base, "_") - 1)
RSplitTail(base) == SubSeq(base, LastIndexOf(base, "_") + 1, Len(base))

\* mutant of ParseKey: only the _v1 suffix is recognised
ParseKeyV1Only(key) ==
    LET filename == Filename(key)
        base == StrRemove(filename, Mp4)
        versioned == StrEndsWith(base, Underscore \o V1)
    IN  [ owner |-> SubSeq(key, 1, LastIndexOf(key, "/") - 1),
          mp4 |-> StrEndsWith(filename, Mp4),
          task_id |-> IF versioned THEN RSplitHead(base) ELSE base,
          variant |-> IF versioned THEN RSplitTail(base) ELSE EmptyStr ]

\* the loop body of list_user_videos on one key: what precedes the file
\* name, whether the name is listed at all, the task id it is listed under
\* and the version suffix that was split off
ParseKey(key) ==
    LET filename == Filename(key)
        base == StrRemove(filename, Mp4)
        versioned == StrEndsWith(base, Underscore \o V1) \/ StrEndsWith(base, Underscore \o V2)
    IN  [ owner |-> SubSeq(key, 1, LastIndexOf(key, "/") - 1),
          mp4 |-> StrEndsWith(filename, Mp4),
          task_id |-> IF versioned THEN RSplitHead(base) ELSE base,
          variant |-> IF versioned THEN RSplitTail(base) ELSE EmptyStr ]

\* list_user_videos on a bucket holding the keys in bucket; the result as
\* a set (the code returns it sorted in descending order)
ListUserVideos(user_id, bucket) ==
    { ParseKey(key).task_id :
        key \in { k \in bucket : StrStartsWith(k, user_id \o Slash) /\ ParseKey(k).mp4 } }

\* ---------------------------------------------------------------- registry
Absent == [val |-> Nil, ttl |-> 0]
AbsentStr == [val |-> EmptyStr, ttl |-> 0]

\* redis_client.set(key, value, ex=86400)
RedisSet(value) == [val |-> value, ttl |-> TTL]

\* half a retention window of wall-clock time passes
TickStep == TTL \div 2
Aged(e, none) ==
    IF e.ttl > TickStep THEN [e EXCEPT !.ttl = e.ttl - TickStep] ELSE none

\* ------------------------------------------------------------ status query
\* mutant of GetStatus: the owner comparison is missing
GetStatusNoOwnerCheck(user_id, task_id) ==
    IF regUser[task_id].val = EmptyStr
    THEN [code |-> 200, task_id |-> task_id, status |-> "NOT_FOUND"]
    ELSE [code |-> 200, task_id |-> task_id,
          status |-> IF regStatus[task_id].val = Nil THEN "UNKNOWN"
                     ELSE regStatus[task_id].val]

\* get_status / get_status_v2 (identical bodies)
GetStatus(user_id, task_id) ==
    LET owner == regUser[task_id].val
    IN  IF owner = EmptyStr
        THEN [code |-> 200, task_id |-> task_id, status |-> "NOT_FOUND"]
        ELSE IF owner # user_id
        THEN [code |-> 403, task_id |-> task_id, status |-> Nil]
        ELSE [code |-> 200, task_id |-> task_id,
              status |-> IF regStatus[task_id].val = Nil THEN "UNKNOWN"
                         ELSE regStatus[task_id].val]

\* -------------------------------------------------------------- job messages
\* json.dumps(job_payload): the members of the object in insertion order
JsonDumps(members) == [json |-> TRUE, members |-> members]

\* json.loads(raw): the members, or a JSONDecodeError
JsonLoadsRaises(raw) == ~raw.json
JsonLoads(raw) == raw.members

HasKey(d, k) == \E n \in 1..Len(d) : d[n][1] = k
\* dict lookup: the last member with that name wins
DictGet(d, k, default) ==
    IF HasKey(d, k)
    THEN d[CHOOSE n \in 1..Len(d) : d[n][1] = k /\ \A m \in (n+1)..Len(d) : d[m][1] # k][2]
    ELSE default

\* job_payload of video_callback (video.py) and video2_callback (video2.py)
JobPayload(handler, user_id, task_id) ==
    IF handler = "video"
    THEN << <<"input_key", JobInputKey(user_id, task_id)>>,
            <<"output_key", JobOutputKey(user_id, task_id)>>,
            <<"variant", V1>> >>
    ELSE << <<"input_key", JobInputKey(user_id, task_id)>>,
            <<"output_key", JobOutputKey(user_id, task_id)>> >>

\* the record of the queue's traffic: switched on by the specification that
\* needs it, and full after MaxHistory messages
NotRecording == [ on |-> FALSE, pushed |-> <<>>, popped |-> <<>> ]
Recording == [ on |-> TRUE, pushed |-> <<>>, popped |-> <<>> ]
Pushed(o, m) ==
    IF o.on /\ Len(o.pushed) < MaxHistory THEN [o EXCEPT !.pushed = Append(@, m)] ELSE o
Popped(o, m) ==
    IF o.on /\ Len(o.popped) < MaxHistory THEN [o EXCEPT !.popped = Append(@, m)] ELSE o

\* redis lpush / brpop on a list whose index 1 is the left end
\* mutant of LPush: the producer pushes at the end the consumer pops from
RPush(q, m) == q \o <<m>>
LPush(q, m) == <<m>> \o q
BRPopValue(q) == q[Len(q)]
BRPopRest(q) == SubSeq(q, 1, Len(q) - 1)

\* ------------------------------------------------------ callback invocations
NoResponse == [code |-> 0, msg |-> "none"]
Waiting == [code |-> 200, msg |-> "waiting"]
NoMapping == [code |-> 200, msg |-> "User mapping not found"]
Success == [code |-> 200, msg |-> "success"]
ServerError == [code |-> 500, msg |-> "Internal Server Error"]

IdleCb == [ pc |-> "idle", handler |-> "video", task_id |-> EmptyStr, shape |-> "missing",
            user_id |-> EmptyStr, writes |-> <<>>, effects |-> {}, tmp |-> {},
            resp |-> NoResponse ]

IdleWk == [ pc |-> "idle", input_key |-> EmptyStr, output_key |-> EmptyStr,
            variant |-> EmptyStr, has_variant |-> FALSE, caption |-> "none",
            tmp |-> {}, failed |-> FALSE, dropped |-> FALSE ]

\* no generate request has been answered yet
NoGenerate == [ shape |-> "none", k |-> 3, code |-> 0, task_id |-> EmptyStr, status |-> Nil ]

\* no object key is under test
NoKeyTest == [ stage |-> "off" ]

InitSystem ==
    /\ regUser = [t \in TaskIds |-> AbsentStr]
    /\ regPrompt = [t \in TaskIds |-> AbsentStr]
    /\ regStatus = [t \in TaskIds |-> Absent]
    /\ issued = [t \in TaskIds |-> EmptyStr]
    /\ cb = [i \in Inv |-> IdleCb]
    /\ queue = <<>>
    /\ storage = {}
    /\ videos = {}
    /\ wk = [w \in Workers |-> IdleWk]
    /\ gresp = NoGenerate

Init == InitSystem /\ kt = NoKeyTest /\ order = NotRecording

\* ------------------------------------------------------------------ generate
\* generate_video / generate_video_v2.  shape: what the upstream call gives
\*   "nested"  a response with data.taskId
\*   "top"     a response with a top-level taskId and no data object
\*   "none"    a response without any task id
\*   "error"   the request raises (timeout, HTTP error status, bad JSON)
\* k: how many of the three redis SET calls succeed before the connection
\* fails (3 = all).
GenerateShapes == { "nested", "top", "none", "error" }

\* data.get("data", {}).get("taskId")
ExtractTaskId(shape, task_id) == IF shape = "nested" THEN task_id ELSE EmptyStr

\* what the handler answers: the return value, HTTPException(502, ...), or
\* the 500 of an exception no handler catches
GenerateResponse(shape, task_id, k) ==
    LET id == ExtractTaskId(shape, task_id)
    IN  IF shape = "error" \/ id = EmptyStr
        THEN [ shape |-> shape, k |-> 3, code |-> 502, task_id |-> EmptyStr, status |-> Nil ]
        ELSE IF k < 3
        THEN [ shape |-> shape, k |-> k, code |-> 500, task_id |-> EmptyStr, status |-> Nil ]
        ELSE [ shape |-> shape, k |-> k, code |-> 200, task_id |-> id, status |-> "QUEUED" ]

Generate(user_id, task_id, shape, k) ==
    /\ shape \in {"nested", "top"} => issued[task_id] = EmptyStr
    /\ issued' = IF shape \in {"nested", "top"}
                 THEN [issued EXCEPT ![task_id] = user_id] ELSE issued
    /\ LET id == ExtractTaskId(shape, task_id)
       IN  IF id = EmptyStr
           THEN UNCHANGED << regUser, regPrompt, regStatus >>
           ELSE /\ regUser' = IF k >= 1 THEN [regUser EXCEPT ![id] = RedisSet(user_id)]
                              ELSE regUser
                /\ regPrompt' = IF k >= 2 THEN [regPrompt EXCEPT ![id] = RedisSet(Prompt)]
                                ELSE regPrompt
                /\ regStatus' = IF k >= 3 THEN [regStatus EXCEPT ![id] = RedisSet("QUEUED")]
                                ELSE regStatus
    /\ gresp' = GenerateResponse(shape, task_id, k)
    /\ UNCHANGED << cb, queue, storage, videos, wk, kt, order >>

\* mutant of StatusQuery: whoever asks becomes the owner
StatusQueryAdopts(user_id, task_id) ==
    /\ regUser[task_id].val # EmptyStr
    /\ regUser' = [regUser EXCEPT ![task_id].val = user_id]
    /\ UNCHANGED << regPrompt, regStatus, issued, cb, queue, storage, videos, wk, gresp, kt, order >>

\* get_status / get_status_v2 read the registry and change nothing
StatusQuery(user_id, task_id) ==
    /\ GetStatus(user_id, task_id).code \in {200, 403}
    /\ UNCHANGED vars

\* keys whose expiry has passed disappear
Tick ==
    /\ \E t \in TaskIds : regUser[t].ttl > 0 \/ regPrompt[t].ttl > 0 \/ regStatus[t].ttl > 0
    /\ regUser' = [t \in TaskIds |-> Aged(regUser[t], AbsentStr)]
    /\ regPrompt' = [t \in TaskIds |-> Aged(regPrompt[t], AbsentStr)]
    /\ regStatus' = [t \in TaskIds |-> Aged(regStatus[t], Absent)]
    /\ UNCHANGED << issued, cb, queue, storage, videos, wk, gresp, kt, order >>

\* ------------------------------------------------------------ callback steps
\* data.get("info", {}).get("resultUrls", [None])[0], and in video2.py the
\* fallback to data.get("videoUrl") when that is falsy
ResultUrlRaises(shape) == shape = "empty"
ResultUrl(handler, shape) ==
    LET first == IF shape = "one" THEN Url ELSE EmptyStr
    IN  IF first = EmptyStr /\ handler = "video2" /\ shape = "fallback" THEN Url ELSE first

\* parameters upload_video declares, and the keywords each handler passes it
UploadVideoParams == { "user_id", "task_id", "file_path", "variant" }
UploadVideoKeywords(handler) == IF handler = "video" THEN { "processed" } ELSE {}
UploadVideoCallRaises(handler) == ~(UploadVideoKeywords(handler) \subseteq UploadVideoParams)


\* request parsing up to the first registry write (PROCESSING).
\* rok: the redis call succeeds.  The generation service notifies only
\* about ids it has handed out.
CbStart(i, handler, task_id, shape, rok) ==
    /\ cb[i].pc = "idle"
    /\ task_id # EmptyStr => issued[task_id] # EmptyStr
    /\ LET c == [IdleCb EXCEPT !.handler = handler, !.task_id = task_id, !.shape = shape]
       IN  IF ResultUrlRaises(shape)
           THEN /\ cb' = [cb EXCEPT ![i] = [c EXCEPT !.pc = "done", !.resp = ServerError]]
                /\ UNCHANGED regStatus
           ELSE LET video_url == ResultUrl(handler, shape)
                IN  IF task_id = EmptyStr \/ video_url = EmptyStr
                    THEN /\ cb' = [cb EXCEPT ![i] = [c EXCEPT !.pc = "done", !.resp = Waiting]]
                         /\ UNCHANGED regStatus
                    ELSE IF rok
                    THEN /\ regStatus' = [regStatus EXCEPT ![task_id] = RedisSet("PROCESSING")]
                         /\ cb' = [cb EXCEPT ![i] = [c EXCEPT !.pc = "lookup",
                                                   !.writes = <<"PROCESSING">>]]
                    ELSE /\ cb' = [cb EXCEPT ![i] = [c EXCEPT !.pc = "done",
                                                   !.resp = ServerError]]
                         /\ UNCHANGED regStatus
    /\ UNCHANGED << regUser, regPrompt, issued, queue, storage, videos, wk, gresp, kt, order >>

\* mutant of CbLookup: the handler goes on without an owner
CbLookupNoCheck(i, rok) ==
    /\ cb[i].pc = "lookup"
    /\ cb' = [cb EXCEPT ![i].pc = "fetch", ![i].user_id = regUser[cb[i].task_id].val,
                        ![i].tmp = {"tmp_video", "tmp_thumb"}]
    /\ UNCHANGED << regUser, regPrompt, regStatus, issued, queue, storage, videos, wk, gresp, kt, order >>

\* the two registry reads (the prompt only feeds the title handed to
\* insert_final_video) and the creation of the temporary files
CbLookup(i, rok) ==
    /\ cb[i].pc = "lookup"
    /\ LET c == cb[i]
           user_id == regUser[c.task_id].val
       IN  cb' = [cb EXCEPT ![i] =
                IF ~rok THEN [c EXCEPT !.pc = "done", !.resp = ServerError]
                ELSE IF user_id = EmptyStr THEN [c EXCEPT !.pc = "noOwner"]
                ELSE [c EXCEPT !.pc = "fetch", !.user_id = user_id,
                               !.tmp = {"tmp_video", "tmp_thumb"}]]
    /\ UNCHANGED << regUser, regPrompt, regStatus, issued, queue, storage, videos, wk, gresp, kt, order >>

\* mutant of CbNoOwner: the handler returns without the FAILED write
CbNoOwnerSilent(i, rok) ==
    /\ cb[i].pc = "noOwner"
    /\ cb' = [cb EXCEPT ![i].pc = "done", ![i].resp = NoMapping]
    /\ UNCHANGED << regUser, regPrompt, regStatus, issued, queue, storage, videos, wk, gresp, kt, order >>

\* if not user_id: FAILED, return
CbNoOwner(i, rok) ==
    /\ cb[i].pc = "noOwner"
    /\ IF rok
       THEN /\ regStatus' = [regStatus EXCEPT ![cb[i].task_id] = RedisSet("FAILED")]
            /\ cb' = [cb EXCEPT ![i].pc = "done", ![i].resp = NoMapping,
                                ![i].writes = Append(@, "FAILED")]
       ELSE /\ cb' = [cb EXCEPT ![i].pc = "done", ![i].resp = ServerError]
            /\ UNCHANGED regStatus
    /\ UNCHANGED << regUser, regPrompt, issued, queue, storage, videos, wk, gresp, kt, order >>

\* try: the download of the asset and the ffmpeg thumbnail, which touch only
\* the invocation's own temporary files.  o: "ok" or the call that raises.
FetchOutcomes == { "ok", "download", "thumbnail" }
CbFetch(i, o) ==
    /\ cb[i].pc = "fetch"
    /\ cb' = [cb EXCEPT ![i] =
            IF o = "download" THEN [@ EXCEPT !.pc = "except"]
            ELSE IF o = "thumbnail" THEN [@ EXCEPT !.pc = "except", !.effects = @ \cup {"download"}]
            ELSE [@ EXCEPT !.pc = "store", !.effects = @ \cup {"download", "thumbnail"}]]
    /\ UNCHANGED << regUser, regPrompt, regStatus, issued, queue, storage, videos, wk, gresp, kt, order >>

\* mutant of CbStore: failures of the uploads and of the insert are swallowed
CbStoreSwallows(i, o) ==
    /\ cb[i].pc = "store"
    /\ cb' = [cb EXCEPT ![i].pc = "lpush"]
    /\ UNCHANGED << regUser, regPrompt, regStatus, issued, queue, storage, videos, wk, gresp, kt, order >>

\* upload_video, upload_thumbnail, insert_final_video.  The call of
\* upload_video raises by itself when it passes a keyword the function
\* does not declare.
StoreOutcomes == { "ok", "upload_video", "upload_thumbnail", "insert_final_video" }
CbStore(i, o) ==
    /\ cb[i].pc = "store"
    /\ LET c == cb[i]
           video == { VideoKey(c.user_id, c.task_id, EmptyStr) }
           thumb == { ThumbKey(c.user_id, c.task_id) }
           row == { <<c.task_id, c.user_id>> }
       IN  IF UploadVideoCallRaises(c.handler) \/ o = "upload_video"
           THEN /\ cb' = [cb EXCEPT ![i].pc = "except"]
                /\ UNCHANGED << storage, videos >>
           ELSE IF o = "upload_thumbnail"
           THEN /\ cb' = [cb EXCEPT ![i].pc = "except", ![i].effects = @ \cup {"upload_video"}]
                /\ storage' = storage \cup video
                /\ UNCHANGED videos
           ELSE IF o = "insert_final_video"
           THEN /\ cb' = [cb EXCEPT ![i].pc = "except",
                                    ![i].effects = @ \cup {"upload_video", "upload_thumbnail"}]
                /\ storage' = storage \cup video \cup thumb
                /\ UNCHANGED videos
           ELSE /\ cb' = [cb EXCEPT ![i].pc = "lpush",
                                    ![i].effects = @ \cup {"upload_video", "upload_thumbnail",
                                                           "insert_final_video"}]
                /\ storage' = storage \cup video \cup thumb
                /\ videos' = videos \cup row
    /\ UNCHANGED << regUser, regPrompt, regStatus, issued, queue, wk, gresp, kt, order >>

\* redis lpush of the job, then the SUCCESS operation log
EnqueueOutcomes == { "ok", "lpush", "log_success" }
CbEnqueue(i, o) ==
    /\ cb[i].pc = "lpush"
    /\ Len(queue) < MaxQueue
    /\ LET c == cb[i]
           job == JsonDumps(JobPayload(c.handler, c.user_id, c.task_id))
       IN  IF o = "lpush"
           THEN /\ cb' = [cb EXCEPT ![i].pc = "except"]
                /\ UNCHANGED << queue, order >>
           ELSE IF o = "log_success"
           THEN /\ cb' = [cb EXCEPT ![i].pc = "except", ![i].effects = @ \cup {"lpush"}]
                /\ queue' = LPush(queue, job)
                /\ order' = Pushed(order, job)
           ELSE /\ cb' = [cb EXCEPT ![i].pc = "set_completed",
                                    ![i].effects = @ \cup {"lpush", "log_success"}]
                /\ queue' = LPush(queue, job)
                /\ order' = Pushed(order, job)
    /\ UNCHANGED << regUser, regPrompt, regStatus, issued, storage, videos, wk, gresp, kt >>

\* mutant of CbSetCompleted: a handler that finds the status already changed
\* by a duplicate gives up with FAILED
CbSetCompletedGuarded(i, rok) ==
    /\ cb[i].pc = "set_completed"
    /\ LET s == IF regStatus[cb[i].task_id].val = "PROCESSING" THEN "COMPLETED" ELSE "FAILED"
       IN  /\ regStatus' = [regStatus EXCEPT ![cb[i].task_id] = RedisSet(s)]
           /\ cb' = [cb EXCEPT ![i].pc = "done", ![i].writes = Append(@, s),
                               ![i].tmp = {}, ![i].resp = Success]
    /\ UNCHANGED << regUser, regPrompt, issued, queue, storage, videos, wk, gresp, kt, order >>

\* the COMPLETED write, and on success the finally block and the response
CbSetCompleted(i, rok) ==
    /\ cb[i].pc = "set_completed"
    /\ IF rok
       THEN /\ regStatus' = [regStatus EXCEPT ![cb[i].task_id] = RedisSet("COMPLETED")]
            /\ cb' = [cb EXCEPT ![i].pc = "done", ![i].writes = Append(@, "COMPLETED"),
                                ![i].tmp = {}, ![i].resp = Success]
       ELSE /\ cb' = [cb EXCEPT ![i].pc = "except"]
            /\ UNCHANGED regStatus
    /\ UNCHANGED << regUser, regPrompt, issued, queue, storage, videos, wk, gresp, kt, order >>

\* mutant of CbExcept: the FAILED operation log is written before the status,
\* and its failure leaves the handler
CbExceptLogFirst(i, o) ==
    /\ cb[i].pc = "except"
    /\ LET c == cb[i]
       IN  IF o \in {"redis", "log_failed"}
           THEN /\ cb' = [cb EXCEPT ![i].pc = "done", ![i].tmp = {}, ![i].resp = ServerError]
                /\ UNCHANGED regStatus
           ELSE /\ regStatus' = [regStatus EXCEPT ![c.task_id] = RedisSet("FAILED")]
                /\ cb' = [cb EXCEPT ![i].pc = "done", ![i].writes = Append(@, "FAILED"),
                                    ![i].effects = @ \cup {"log_failed"},
                                    ![i].tmp = {}, ![i].resp = Success]
    /\ UNCHANGED << regUser, regPrompt, issued, queue, storage, videos, wk, gresp, kt, order >>

\* mutant of CbExcept: the temporary files are removed only after the FAILED
\* write has succeeded
CbExceptLeaks(i, o) ==
    /\ cb[i].pc = "except"
    /\ LET c == cb[i]
       IN  IF o = "redis"
           THEN /\ cb' = [cb EXCEPT ![i].pc = "done", ![i].resp = ServerError]
                /\ UNCHANGED regStatus
           ELSE /\ regStatus' = [regStatus EXCEPT ![c.task_id] = RedisSet("FAILED")]
                /\ cb' = [cb EXCEPT ![i].pc = "done", ![i].writes = Append(@, "FAILED"),
                                    ![i].effects = IF o = "ok" THEN @ \cup {"log_failed"} ELSE @,
                                    ![i].tmp = {}, ![i].resp = Success]
    /\ UNCHANGED << regUser, regPrompt, issued, queue, storage, videos, wk, gresp, kt, order >>

\* except Exception: the FAILED write, then the FAILED operation log whose
\* own failure is swallowed, then the finally block and the response.  If
\* the FAILED write raises, the exception leaves the handler through the
\* finally block.
ExceptOutcomes == { "ok", "redis", "log_failed" }
CbExcept(i, o) ==
    /\ cb[i].pc = "except"
    /\ LET c == cb[i]
       IN  IF o = "redis"
           THEN /\ cb' = [cb EXCEPT ![i].pc = "done", ![i].tmp = {}, ![i].resp = ServerError]
                /\ UNCHANGED regStatus
           ELSE /\ regStatus' = [regStatus EXCEPT ![c.task_id] = RedisSet("FAILED")]
                /\ cb' = [cb EXCEPT ![i].pc = "done", ![i].writes = Append(@, "FAILED"),
                                    ![i].effects = IF o = "ok" THEN @ \cup {"log_failed"} ELSE @,
                                    ![i].tmp = {}, ![i].resp = Success]
    /\ UNCHANGED << regUser, regPrompt, issued, queue, storage, videos, wk, gresp, kt, order >>

\* the response has been sent; the slot serves the next request
CbReturn(i) ==
    /\ cb[i].pc = "done"
    /\ cb' = [cb EXCEPT ![i] = IdleCb]
    /\ UNCHANGED << regUser, regPrompt, regStatus, issued, queue, storage, videos, wk, gresp, kt, order >>

\* ------------------------------------------------------------------- worker
DefaultCaption == "default"
CaptionOutcomes == { "ok", "empty", "CalledProcessError", "TimeoutExpired", "OSError" }

\* a message main cannot turn into a job: json.loads raises, or process_job
\* raises KeyError on job["input_key"] / job["output_key"]
Malformed(raw) ==
    \/ JsonLoadsRaises(raw)
    \/ ~HasKey(JsonLoads(raw), "input_key")
    \/ ~HasKey(JsonLoads(raw), "output_key")

\* mutant of WPop: a message that cannot be processed ends the loop
WPopStops(w) ==
    /\ wk[w].pc = "idle"
    /\ queue # <<>>
    /\ queue' = BRPopRest(queue)
    /\ LET raw == BRPopValue(queue)
       IN  IF Malformed(raw)
           THEN wk' = [wk EXCEPT ![w].pc = "crashed"]
           ELSE LET job == JsonLoads(raw)
                IN  wk' = [wk EXCEPT ![w] =
                             [IdleWk EXCEPT !.pc = "download",
                                            !.input_key = DictGet(job, "input_key", EmptyStr),
                                            !.output_key = DictGet(job, "output_key", EmptyStr),
                                            !.variant = DictGet(job, "variant", V1),
                                            !.has_variant = HasKey(job, "variant"),
                                            !.tmp = {"tmp_input", "tmp_output"}]]
    /\ UNCHANGED << regUser, regPrompt, regStatus, issued, cb, storage, videos, gresp, kt, order >>

\* main: brpop, json.loads, and process_job up to the creation of its
\* temporary files.  A message json.loads rejects, or a job without
\* input_key or output_key, raises into main's except and the loop goes on
\* (dropped records that this was the fate of the loop's latest message).
WPop(w) ==
    /\ wk[w].pc = "idle"
    /\ queue # <<>>
    /\ queue' = BRPopRest(queue)
    /\ order' = Popped(order, BRPopValue(queue))
    /\ LET raw == BRPopValue(queue)
       IN  IF JsonLoadsRaises(raw)
           THEN wk' = [wk EXCEPT ![w].dropped = TRUE]
           ELSE LET job == JsonLoads(raw)
                IN  IF ~HasKey(job, "input_key") \/ ~HasKey(job, "output_key")
                    THEN wk' = [wk EXCEPT ![w].dropped = TRUE]
                    ELSE wk' = [wk EXCEPT ![w] =
                             [IdleWk EXCEPT !.pc = "download",
                                            !.input_key = DictGet(job, "input_key", EmptyStr),
                                            !.output_key = DictGet(job, "output_key", EmptyStr),
                                            !.variant = DictGet(job, "variant", V1),
                                            !.has_variant = HasKey(job, "variant"),
                                            !.tmp = {"tmp_input", "tmp_output"}]]
    /\ UNCHANGED << regUser, regPrompt, regStatus, issued, cb, storage, videos, gresp, kt >>

\* mutant of WDownload: a failed download returns to the loop at once
WDownloadLeaks(w, ok) ==
    /\ wk[w].pc = "download"
    /\ wk' = [wk EXCEPT ![w] = IF ok /\ wk[w].input_key \in storage
                               THEN [@ EXCEPT !.pc = "caption"]
                               ELSE [@ EXCEPT !.pc = "idle"]]
    /\ UNCHANGED << regUser, regPrompt, regStatus, issued, cb, queue, storage, videos, gresp, kt, order >>

\* mutant of WDownload: a job whose download failed is pushed again
WDownloadRetries(w, ok) ==
    /\ wk[w].pc = "download"
    /\ IF ok /\ wk[w].input_key \in storage
       THEN /\ wk' = [wk EXCEPT ![w].pc = "caption"]
            /\ UNCHANGED queue
       ELSE /\ wk' = [wk EXCEPT ![w].pc = "finally", ![w].failed = TRUE]
            /\ queue' = LPush(queue, JsonDumps(<< <<"input_key", wk[w].input_key>>,
                                                  <<"output_key", wk[w].output_key>> >>))
    /\ UNCHANGED << regUser, regPrompt, regStatus, issued, cb, storage, videos, gresp, kt, order >>

\* 1. download_object: fails when the key is not in the bucket or S3 fails
WDownload(w, ok) ==
    /\ wk[w].pc = "download"
    /\ wk' = [wk EXCEPT ![w] = IF ok /\ wk[w].input_key \in storage
                               THEN [@ EXCEPT !.pc = "caption"]
                               ELSE [@ EXCEPT !.pc = "finally", !.failed = TRUE]]
    /\ UNCHANGED << regUser, regPrompt, regStatus, issued, cb, queue, storage, videos, gresp, kt, order >>

\* 2. the caption subprocess: CalledProcessError and TimeoutExpired are
\* caught and leave the caption empty, which is replaced by the default;
\* any other exception reaches the outer except.
\* 3. the ffmpeg script, check=True.
WTransform(w, outcome, ok) ==
    /\ wk[w].pc = "caption"
    /\ wk' = [wk EXCEPT ![w] =
            IF outcome = "OSError" THEN [@ EXCEPT !.pc = "finally", !.failed = TRUE]
            ELSE LET caption == IF outcome = "ok" THEN "json" ELSE DefaultCaption
                 IN  IF ok THEN [@ EXCEPT !.pc = "upload", !.caption = caption]
                     ELSE [@ EXCEPT !.pc = "finally", !.caption = caption, !.failed = TRUE]]
    /\ UNCHANGED << regUser, regPrompt, regStatus, issued, cb, queue, storage, videos, gresp, kt, order >>

\* 4. upload_object(output_key, tmp_output)
WUpload(w, ok) ==
    /\ wk[w].pc = "upload"
    /\ IF ok
       THEN /\ storage' = storage \cup { wk[w].output_key }
            /\ wk' = [wk EXCEPT ![w].pc = "finally"]
       ELSE /\ wk' = [wk EXCEPT ![w].pc = "finally", ![w].failed = TRUE]
            /\ UNCHANGED storage
    /\ UNCHANGED << regUser, regPrompt, regStatus, issued, cb, queue, videos, gresp, kt, order >>

\* finally: remove the temporary files; back to the loop
WFinally(w) ==
    /\ wk[w].pc = "finally"
    /\ wk' = [wk EXCEPT ![w] = IdleWk]
    /\ UNCHANGED << regUser, regPrompt, regStatus, issued, cb, queue, storage, videos, gresp, kt, order >>

\* 3. the ffmpeg script is started by subprocess.run, which is given no
\* timeout, and does not return: the loop stays in that call
WHang(w) ==
    /\ wk[w].pc = "caption"
    /\ wk' = [wk EXCEPT ![w].pc = "transcode", ![w].caption = DefaultCaption]
    /\ UNCHANGED << regUser, regPrompt, regStatus, issued, cb, queue, storage, videos, gresp, kt, order >>

\* mutant of WCrash: the job in hand goes back on the queue
WCrashRequeues(w) ==
    /\ wk[w].pc \in {"download", "caption", "upload", "finally"}
    /\ wk' = [wk EXCEPT ![w] = [IdleWk EXCEPT !.pc = "crashed", !.tmp = wk[w].tmp]]
    /\ queue' = LPush(queue, JsonDumps(<< <<"input_key", wk[w].input_key>>,
                                          <<"output_key", wk[w].output_key>> >>))
    /\ UNCHANGED << regUser, regPrompt, regStatus, issued, cb, storage, videos, gresp, kt, order >>

\* the worker process is killed while process_job runs: nothing of the job
\* survives but the temporary files
WCrash(w) ==
    /\ wk[w].pc \in {"download", "caption", "upload", "finally"}
    /\ wk' = [wk EXCEPT ![w] = [IdleWk EXCEPT !.pc = "crashed", !.tmp = wk[w].tmp]]
    /\ UNCHANGED << regUser, regPrompt, regStatus, issued, cb, queue, storage, videos, gresp, kt, order >>

\* messages on REDIS_QUEUE that no callback handler wrote: text that is not
\* JSON, and JSON objects lacking one of the two keys
MalformedMessages ==
    { [json |-> FALSE, members |-> <<>>],
      JsonDumps(<< <<"input_key", JobInputKey(<<"u","1">>, <<"t","1">>)>> >>),
      JsonDumps(<< <<"output_key", JobOutputKey(<<"u","1">>, <<"t","1">>)>> >>) }

\* some other client of the Redis list pushes such a message
PushMalformed(m) ==
    /\ Len(queue) < MaxQueue
    /\ queue' = LPush(queue, m)
    /\ order' = Pushed(order, m)
    /\ UNCHANGED << regUser, regPrompt, regStatus, issued, cb, storage, videos, wk, gresp, kt >>

\* ------------------------------------------------------------ specifications
\* O: the outcomes collaborators may have (TRUE = the call succeeds)
Fails(O, outcomes) == IF FALSE \in O THEN outcomes ELSE {"ok"}

\* the request handlers serving users U, task ids T, upstream responses Sh
RequestsOf(U, T, Sh, O) ==
    \/ \E u \in U, t \in T, shape \in Sh,
          k \in {3} \cup (IF FALSE \in O THEN 0..2 ELSE {}) : Generate(u, t, shape, k)
    \/ \E u \in U, t \in T : StatusQuery(u, t)

\* callback deliveries to handlers H for task ids T with payload shapes S
CbStepsOf(T, H, S, O) ==
    \/ \E i \in Inv, h \in H, t \in T, shape \in S, rok \in O : CbStart(i, h, t, shape, rok)
    \/ \E i \in Inv, rok \in O : CbLookup(i, rok)
    \/ \E i \in Inv, rok \in O : CbNoOwner(i, rok)
    \/ \E i \in Inv, o \in Fails(O, FetchOutcomes) : CbFetch(i, o)
    \/ \E i \in Inv, o \in Fails(O, StoreOutcomes) : CbStore(i, o)
    \/ \E i \in Inv, o \in Fails(O, EnqueueOutcomes) : CbEnqueue(i, o)
    \/ \E i \in Inv, rok \in O : CbSetCompleted(i, rok)
    \/ \E i \in Inv, o \in Fails(O, ExceptOutcomes) : CbExcept(i, o)
    \/ \E i \in Inv : CbReturn(i)

\* the worker loops W
WkStepsOf(W, O) ==
    \/ \E w \in W : WPop(w)
    \/ \E w \in W, ok \in O : WDownload(w, ok)
    \/ \E w \in W, o \in Fails(O, CaptionOutcomes), ok \in O : WTransform(w, o, ok)
    \/ \E w \in W, ok \in O : WUpload(w, ok)
    \/ \E w \in W : WFinally(w)

\* one task id, one worker loop: the deployment the lifecycle is checked on
OneTask == { <<"t","1">> }
OneLoop == { "w1" }
Requests(O) == RequestsOf(Users, OneTask, {"nested", "top"}, O)
CbSteps(O) == CbStepsOf(OneTask \cup {EmptyStr}, Handlers, UrlShapes, O)
WkSteps(O) == WkStepsOf(OneLoop, O)

\* the queue between the callback handler and two worker loops that may be
\* killed at any point of a job, with malformed messages arriving as well
NextQueue ==
    \/ RequestsOf({<<"u","1">>}, OneTask, {"nested", "top"}, {TRUE})
    \/ CbStepsOf(OneTask, Handlers, {"one"}, {TRUE})
    \/ WkStepsOf(Workers, {TRUE})
    \/ \E w \in Workers : WCrash(w)
    \/ \E m \in MalformedMessages : PushMalformed(m)
SpecQueue == Init /\ [][NextQueue]_vars

\* two tasks of one user delivered to video2_callback and consumed by a
\* single worker loop, nothing failing, the queue's traffic recorded
InitFifo == InitSystem /\ kt = NoKeyTest /\ order = Recording
NextFifo ==
    \/ \E t \in TaskIds : Generate(<<"u","1">>, t, "nested", 3)
    \/ \E i \in Inv, t \in TaskIds : CbStart(i, "video2", t, "one", TRUE)
    \/ \E i \in Inv : CbLookup(i, TRUE)
    \/ \E i \in Inv : CbFetch(i, "ok")
    \/ \E i \in Inv : CbStore(i, "ok")
    \/ \E i \in Inv : CbEnqueue(i, "ok")
    \/ \E i \in Inv : CbSetCompleted(i, TRUE)
    \/ \E i \in Inv : CbReturn(i)
    \/ WkStepsOf(OneLoop, {TRUE})
SpecFifo == InitFifo /\ [][NextFifo]_vars

\* the generate handler with every kind of upstream response and the
\* registry failing at will, followed by callbacks that meet no failure
NextGenerate ==
    \/ RequestsOf(Users, OneTask, GenerateShapes, BOOLEAN)
    \/ CbStepsOf(OneTask, Handlers, {"one", "missing"}, {TRUE})
SpecGenerate == Init /\ [][NextGenerate]_vars

\* every operation that runs while a registry entry is live: generate
\* requests of both users for two task ids, status queries, callbacks for
\* the first task, the worker, and the passing of time
NextOwner ==
    \/ RequestsOf(Users, TaskIds, {"nested"}, {TRUE})
    \/ CbStepsOf(OneTask, Handlers, {"one"}, {TRUE})
    \/ WkStepsOf(OneLoop, {TRUE})
    \/ Tick
SpecOwner == Init /\ [][NextOwner]_vars

\* the callback handlers with the registry reachable and every other
\* collaborator of the try block (asset download, ffmpeg, S3, the metadata
\* store, the queue, the operation log) failing at will
NextSteps ==
    \/ Requests({TRUE})
    \/ \E i \in Inv, h \in Handlers, t \in OneTask, shape \in {"one", "fallback"} :
          CbStart(i, h, t, shape, TRUE)
    \/ \E i \in Inv : CbLookup(i, TRUE)
    \/ \E i \in Inv : CbNoOwner(i, TRUE)
    \/ \E i \in Inv, o \in FetchOutcomes : CbFetch(i, o)
    \/ \E i \in Inv, o \in StoreOutcomes : CbStore(i, o)
    \/ \E i \in Inv, o \in EnqueueOutcomes : CbEnqueue(i, o)
    \/ \E i \in Inv : CbSetCompleted(i, TRUE)
    \/ \E i \in Inv, o \in {"ok", "log_failed"} : CbExcept(i, o)
    \/ \E i \in Inv : CbReturn(i)
SpecSteps == Init /\ [][NextSteps]_vars

\* one task delivered to video2_callback and a worker loop that keeps
\* running, none of their collaborators failing, but the transcode tool
\* possibly never returning
NextHang ==
    \/ \E u \in Users, t \in OneTask : Generate(u, t, "nested", 3)
    \/ \E i \in Inv, t \in OneTask : CbStart(i, "video2", t, "one", TRUE)
    \/ \E i \in Inv : CbLookup(i, TRUE)
    \/ \E i \in Inv : CbFetch(i, "ok")
    \/ \E i \in Inv : CbStore(i, "ok")
    \/ \E i \in Inv : CbEnqueue(i, "ok")
    \/ \E i \in Inv : CbSetCompleted(i, TRUE)
    \/ \E i \in Inv : CbReturn(i)
    \/ WkStepsOf(OneLoop, {TRUE})
    \/ \E w \in OneLoop : WHang(w)
SpecHang == Init /\ [][NextHang]_vars /\ WF_vars(WkStepsOf(OneLoop, {TRUE}))

\* every way a callback invocation or a job can end: each collaborator of
\* the handlers and of the worker failing at will, and malformed messages
\* among the jobs
NextTmp ==
    \/ RequestsOf({<<"u","1">>}, OneTask, {"nested", "top"}, {TRUE})
    \/ CbStepsOf(OneTask, {"video2"}, {"one"}, BOOLEAN)
    \/ WkStepsOf(OneLoop, BOOLEAN)
    \/ \E m \in { n \in MalformedMessages : ~HasKey(n.members, "output_key") } :
          PushMalformed(m)
SpecTmp == Init /\ [][NextTmp]_vars

\* ---- object keys built and parsed back
\* task ids the generation service could hand out: it treats them as opaque
KeyTaskIds == TaskIds \cup { <<"t","_","1">>, <<"v","1">>, <<"t","_","v","1">>,
                             <<"t","_","v","2">>, <<"t",".","m","p","4">>, <<"a","/","b">> }

InitKeys ==
    /\ InitSystem
    /\ order = NotRecording
    /\ kt \in [ stage : {"input"}, owner : Users, task_id : KeyTaskIds,
                 variant : Variants \cup {EmptyStr} ]

\* upload_video forms the key
KeyBuild ==
    /\ kt.stage = "input"
    /\ kt' = [ stage |-> "built", owner |-> kt.owner, task_id |-> kt.task_id,
               variant |-> kt.variant,
               key |-> VideoKey(kt.owner, kt.task_id, kt.variant) ]
    /\ UNCHANGED << regUser, regPrompt, regStatus, issued, cb, queue, storage, videos, wk, gresp, order >>

\* list_user_videos takes the key apart
KeyParse ==
    /\ kt.stage = "built"
    /\ kt' = [ stage |-> "parsed", owner |-> kt.owner, task_id |-> kt.task_id,
               variant |-> kt.variant, key |-> kt.key, parsed |-> ParseKey(kt.key) ]
    /\ UNCHANGED << regUser, regPrompt, regStatus, issued, cb, queue, storage, videos, wk, gresp, order >>

NextKeys == KeyBuild \/ KeyParse
SpecKeys == InitKeys /\ [][NextKeys]_vars

\* the whole system with every collaborator succeeding and no key expiring
NextHappy == Requests({TRUE}) \/ CbSteps({TRUE}) \/ WkSteps({TRUE})
SpecHappy == Init /\ [][NextHappy]_vars

\* the request handlers with every collaborator (Redis included) failing at
\* will; the worker, which touches neither the registry nor the metadata and
\* only adds keys to the bucket, stays idle, so at most MaxQueue jobs are
\* enqueued
NextCallback == Requests(BOOLEAN) \/ CbSteps(BOOLEAN)
SpecCallback == Init /\ [][NextCallback]_vars

\* the request handlers with registry keys expiring
NextExpiry == Requests({TRUE}) \/ CbSteps({TRUE}) \/ Tick
SpecExpiry == Init /\ [][NextExpiry]_vars

\* the whole system with the worker's collaborators failing at will
NextWorker == Requests({TRUE}) \/ CbSteps({TRUE}) \/ WkSteps(BOOLEAN)
SpecWorker == Init /\ [][NextWorker]_vars


\* ------------------------------------------------------------------- claims
\* what the payload of an invocation carried
Complete(c) ==
    /\ c.task_id # EmptyStr
    /\ ~ResultUrlRaises(c.shape)
    /\ ResultUrl(c.handler, c.shape) # EmptyStr
LacksIdOrUrl(c) == c.task_id = EmptyStr \/ c.shape \in {"missing", "empty"}

Terminal == { "COMPLETED", "FAILED" }
NonTerminal == { "QUEUED", "PROCESSING" }

\* C1: once the stored status of a task is COMPLETED or FAILED, no later
\* operation writes QUEUED or PROCESSING for that id.
StatusOnlyMovesForward ==
    [][\A t \in TaskIds : regStatus[t].val \in Terminal => regStatus'[t].val \notin NonTerminal]_vars

\* C2: while the owner key of a task created by o1 is present, the status
\* query of any other user o2 is answered 403 and carries no status.
NonOwnerIsForbidden ==
    \A t \in TaskIds, o2 \in Users :
        (issued[t] # EmptyStr /\ regUser[t].val # EmptyStr /\ o2 # issued[t])
            => (GetStatus(o2, t).code = 403 /\ GetStatus(o2, t).status = Nil)

NonOwnerIsForbiddenWitness ==
    \E t \in TaskIds, o2 \in Users :
        /\ regUser[t].val # EmptyStr /\ o2 # regUser[t].val
        /\ regStatus[t].val = "COMPLETED"
        /\ GetStatus(o2, t).code = 403
        /\ GetStatus(regUser[t].val, t).status = "COMPLETED"

\* C3: with every collaborator succeeding, each callback invocation (of
\* either handler) that carries an id and a URL for a registered task writes
\* PROCESSING, then COMPLETED, and has enqueued the job.
HappyPathCompletes ==
    \A i \in Inv :
        (cb[i].pc = "done" /\ Complete(cb[i]) /\ cb[i].user_id # EmptyStr)
            => (cb[i].writes = <<"PROCESSING", "COMPLETED">> /\ "lpush" \in cb[i].effects)

\* C4: whenever the stored status of a task is COMPLETED, the raw artifact
\* {owner}/{task_id}.mp4 is in the bucket and the metadata row is persisted.
CompletedImpliesStored ==
    \A t \in TaskIds :
        regStatus[t].val = "COMPLETED"
            => /\ issued[t] # EmptyStr
               /\ VideoKey(issued[t], t, EmptyStr) \in storage
               /\ <<t, issued[t]>> \in videos

CompletedImpliesStoredWitness ==
    \E t \in TaskIds, i \in Inv :
        /\ regStatus[t].val = "COMPLETED"
        /\ VideoKey(issued[t], t, EmptyStr) \in storage
        /\ cb[i].task_id = t /\ cb[i].pc = "except"

\* C5: when two invocations of video2_callback with the same complete
\* payload for a registered task have both returned (all collaborators
\* succeeding), the status is COMPLETED, and once the worker has drained the
\* queue the bucket holds exactly the keys one invocation produces.
KeysOfOneInvocation(user_id, task_id) ==
    { VideoKey(user_id, task_id, EmptyStr), ThumbKey(user_id, task_id),
      JobOutputKey(user_id, task_id) }
Drained == queue = <<>> /\ \A w \in Workers : wk[w].pc = "idle"
BothReturned(t) ==
    \A i \in Inv :
        /\ cb[i].pc = "done" /\ cb[i].handler = "video2" /\ cb[i].task_id = t
        /\ Complete(cb[i]) /\ cb[i].user_id # EmptyStr
        /\ \A j \in Inv : cb[j].shape = cb[i].shape

DuplicateCallbackIdempotent ==
    \A t \in TaskIds :
        BothReturned(t)
            => /\ regStatus[t].val = "COMPLETED"
               /\ Drained => storage = KeysOfOneInvocation(issued[t], t)

DuplicateCallbackIdempotentWitness ==
    \E t \in TaskIds :
        /\ BothReturned(t) /\ Drained
        /\ regStatus[t].val = "COMPLETED"
        /\ storage = KeysOfOneInvocation(issued[t], t)

\* C6: an invocation whose payload lacks the task id or the result URL
\* returns a success acknowledgement and has written nothing.
IncompleteCallbackIsNoOp ==
    \A i \in Inv :
        (cb[i].pc = "done" /\ LacksIdOrUrl(cb[i]))
            => (cb[i].resp = Waiting /\ cb[i].writes = <<>> /\ cb[i].effects = {})

\* C7: an invocation with a complete payload that finds no owner for the id
\* writes FAILED and returns: it creates no file, fetches nothing, writes
\* nothing to the bucket or the metadata store and enqueues no job.
OwnerMissingFailsAndStops ==
    \A i \in Inv :
        /\ (cb[i].pc \notin {"idle", "lookup", "noOwner", "done"}) => cb[i].user_id # EmptyStr
        /\ cb[i].pc = "noOwner" => (cb[i].effects = {} /\ cb[i].tmp = {})
        /\ (cb[i].pc = "done" /\ Complete(cb[i]) /\ cb[i].user_id = EmptyStr)
              => /\ cb[i].writes = <<"PROCESSING", "FAILED">>
                 /\ cb[i].resp = NoMapping
                 /\ cb[i].effects = {}

OwnerMissingFailsAndStopsWitness ==
    \E i \in Inv :
        /\ cb[i].pc = "done" /\ cb[i].resp = NoMapping
        /\ issued[cb[i].task_id] # EmptyStr
        /\ regUser[cb[i].task_id].val = EmptyStr
        /\ regStatus[cb[i].task_id].val = "FAILED"
        /\ storage # {}

\* C8: every invocation with a complete payload returns an acknowledgement,
\* whichever collaborator (Redis included) fails.
CallbackAlwaysAcknowledges ==
    \A i \in Inv : (cb[i].pc = "done" /\ Complete(cb[i])) => cb[i].resp.code = 200

\* C9: after the worker's download, transcode or upload has failed for the
\* job of a task (no callback invocation being in flight), the owner's
\* status query returns FAILED.
FailedRunReportsFailed ==
    \A w \in Workers, t \in TaskIds :
        (/\ wk[w].pc = "finally" /\ wk[w].failed
         /\ issued[t] # EmptyStr /\ wk[w].input_key = JobInputKey(issued[t], t)
         /\ \A i \in Inv : cb[i].pc \in {"idle", "done"})
            => GetStatus(issued[t], t).status = "FAILED"

\* C10: every video key written or scheduled for writing is
\* {owner}/{task_id}.mp4 or {owner}/{task_id}_{variant}.mp4, variant in {v1, v2}.
EndsWith(s, suffix) ==
    Len(s) >= Len(suffix) /\ SubSeq(s, Len(s) - Len(suffix) + 1, Len(s)) = suffix
SchemeKeys ==
    { VideoKey(u, t, v) : u \in Users, t \in TaskIds, v \in Variants \cup {EmptyStr} }
VideoKeysFollowScheme ==
    /\ \A k \in storage : EndsWith(k, Mp4) => k \in SchemeKeys
    /\ \A n \in 1..Len(queue) :
          DictGet(JsonLoads(queue[n]), "output_key", EmptyStr) \in SchemeKeys
    /\ \A w \in Workers : wk[w].pc # "idle" => wk[w].output_key \in SchemeKeys

\* ---- key round trip
\* a task id the key scheme can carry: no path separator, no ".mp4" inside,
\* and no version suffix of its own
PlainTaskId(t) ==
    /\ LastIndexOf(t, "/") = 0
    /\ StrRemove(t, Mp4) = t
    /\ ~StrEndsWith(t, Underscore \o V1)
    /\ ~StrEndsWith(t, Underscore \o V2)

RoundTrips(k) ==
    /\ k.parsed.mp4
    /\ k.parsed.owner = k.owner
    /\ k.parsed.task_id = k.task_id
    /\ k.parsed.variant = k.variant

\* C11, for any task id whatever: for every owner, task id and variant in
\* {none, v1, v2}, parsing the key built from them gives the three back
KeyRoundTripAnyId == kt.stage = "parsed" => RoundTrips(kt)

\* C11, for plain task ids: the key built from an owner, a variant in
\* {none, v1, v2} and a task id that has no "/", no ".mp4" and no trailing
\* _v1/_v2 parses back to the same owner, task id and variant
KeyRoundTrip == kt.stage = "parsed" /\ PlainTaskId(kt.task_id) => RoundTrips(kt)

KeyRoundTripWitness ==
    /\ kt.stage = "parsed"
    /\ kt.task_id = <<"t","_","1">>
    /\ kt.variant = V2
    /\ kt.key = <<"u","1","/","t","_","1","_","v","2",".","m","p","4">>
    /\ RoundTrips(kt)

\* ---- listing
\* every callback invocation has returned and every popped job is finished
Quiescent ==
    /\ \A i \in Inv : cb[i].pc \in {"idle", "done"}
    /\ \A w \in Workers : wk[w].pc = "idle"

\* the tasks of user_id whose video the callback stored
StoredTasks(user_id) == { t \in TaskIds : VideoKey(user_id, t, EmptyStr) \in storage }

\* C12: once the callbacks and worker jobs have completed, the listing of a
\* user holds exactly one entry per task of that user, whatever artifacts
\* the task has in the bucket
ListingGroupsVariants ==
    Quiescent => \A u \in Users : ListUserVideos(u, storage) = StoredTasks(u)

\* ---- queue
\* the step takes the message at the right end of the queue
Pops == Len(queue') < Len(queue)

\* C13: a popped message that is not JSON, or lacks input_key or output_key,
\* is dropped: it leaves the queue and does not come back, nothing is
\* downloaded, transcoded or uploaded for it, the loop that popped it stays
\* in its loop, and an idle loop can always pop the next message
MalformedIsDropped ==
    /\ [][ Pops /\ Malformed(BRPopValue(queue)) =>
             /\ queue' = BRPopRest(queue)
             /\ storage' = storage
             /\ \E w \in Workers :
                    /\ wk[w].pc = "idle"
                    /\ wk' = [wk EXCEPT ![w].dropped = TRUE] ]_vars
    /\ [](\A w \in Workers : wk[w].pc = "idle" /\ queue # <<>> => ENABLED WPop(w))

MalformedIsDroppedWitness ==
    \E w \in Workers :
        /\ wk[w].dropped /\ wk[w].pc = "idle"
        /\ queue # <<>> /\ ~Malformed(BRPopValue(queue))

\* after the step, the job loop w has in hand is the one raw describes
Receives(w, raw) ==
    /\ wk'[w].pc = "download"
    /\ wk'[w].input_key = DictGet(JsonLoads(raw), "input_key", EmptyStr)
    /\ wk'[w].output_key = DictGet(JsonLoads(raw), "output_key", EmptyStr)

\* C14: a message leaves the queue in the step that hands it to exactly one
\* idle loop, every other loop being untouched; no step of a worker loop adds
\* to the queue; and when a loop is killed, its job is then neither in the
\* queue nor in any loop
DeliveredAtMostOnce ==
    [][ /\ Pops =>
            /\ queue' = BRPopRest(queue)
            /\ \E w \in Workers :
                   /\ wk[w].pc = "idle"
                   /\ \A x \in Workers \ {w} : wk'[x] = wk[x]
                   /\ Malformed(BRPopValue(queue)) \/ Receives(w, BRPopValue(queue))
        /\ wk' # wk => Len(queue') <= Len(queue)
        /\ \A w \in Workers :
               wk[w].pc # "crashed" /\ wk'[w].pc = "crashed" =>
                   /\ queue' = queue
                   /\ wk'[w].input_key = EmptyStr /\ wk'[w].output_key = EmptyStr
                   /\ \A x \in Workers \ {w} : wk'[x] = wk[x] ]_vars

DeliveredAtMostOnceWitness ==
    \E w \in Workers, x \in Workers :
        /\ wk[w].pc = "crashed" /\ wk[w].tmp # {}
        /\ wk[x].pc = "upload"
        /\ queue = <<>>

\* C15: with a single worker loop, the messages popped so far are, in order,
\* the first of the messages pushed
PoppedInPushOrder ==
    /\ Len(order.popped) <= Len(order.pushed)
    /\ \A n \in 1..Len(order.popped) : order.popped[n] = order.pushed[n]

\* two different jobs were pushed and both came out, the older one first
PoppedInPushOrderWitness ==
    /\ Len(order.popped) >= 2
    /\ order.popped[1] # order.popped[2]
    /\ order.popped[1] = JsonDumps(JobPayload("video2", <<"u","1">>, <<"t","2">>))
    /\ order.pushed[1] = order.popped[1] /\ order.pushed[2] = order.popped[2]

\* ---- variants
\* the objects in the bucket derived from the video stored under input_key:
\* every key of the same owner and task other than the video itself and its
\* thumbnail
Artifacts(input_key) ==
    LET owner == ParseKey(input_key).owner
        task_id == ParseKey(input_key).task_id
    IN  { k \in storage : StrStartsWith(k, owner \o Slash \o task_id) }
            \ { VideoKey(owner, task_id, EmptyStr), ThumbKey(owner, task_id) }

\* C16: when a worker loop has run a job to the end without error, the bucket
\* holds an artifact for each of v1 and v2 if the job named no variant, and
\* one artifact if it named one
FullVariantSet ==
    \A w \in Workers :
        wk[w].pc = "finally" /\ ~wk[w].failed =>
            Cardinality(Artifacts(wk[w].input_key)) =
                IF wk[w].has_variant THEN 1 ELSE Cardinality(Variants)

\* ---- generate
\* C17: a generate request whose upstream response carries the task id,
\* nested under data or at the top level, is answered with that id and
\* QUEUED and leaves a registry entry; one whose upstream call fails or
\* yields no id is answered with the upstream error; and no registry entry
\* exists for an id the upstream never handed out
GenerateAcceptsEitherEncoding ==
    /\ gresp.shape \in {"nested", "top"} /\ gresp.k = 3 =>
           /\ gresp.code = 200 /\ gresp.status = "QUEUED"
           /\ gresp.task_id \in TaskIds
           /\ regUser[gresp.task_id].val = issued[gresp.task_id]
    /\ gresp.shape \in {"none", "error"} /\ gresp.code # 0 => gresp.code = 502
    /\ \A t \in TaskIds : issued[t] = EmptyStr => regUser[t] = AbsentStr /\ regStatus[t] = Absent

\* C18: a generate request that obtained its id while the registry was
\* unreachable is answered like any other (the id with QUEUED, no error),
\* and the status of that id then reads NOT_FOUND
RegistryCreateFailsSilently ==
    gresp.shape = "nested" /\ gresp.k = 0 =>
        /\ gresp.code = 200 /\ gresp.status = "QUEUED"
        /\ gresp.task_id \in TaskIds
        /\ GetStatus(issued[gresp.task_id], gresp.task_id).status = "NOT_FOUND"

\* ---- expiry and ownership
\* C19: a status the callback wrote can be read by the owner for as long as
\* the status key written is live (24 hours from the write): the query
\* returns that status, not NOT_FOUND
StatusReadableAfterWrite ==
    \A t \in TaskIds :
        regStatus[t].val = "COMPLETED" => GetStatus(issued[t], t).status = "COMPLETED"

\* C20: while the owner key of a task is present, no step gives it another
\* value
OwnerImmutable ==
    [][\A t \in TaskIds :
          regUser[t].val # EmptyStr /\ regUser'[t].val # EmptyStr
              => regUser'[t].val = regUser[t].val]_vars

\* the owner of t1 is still stored after half a day in which its callback
\* completed, the worker ran its job, the other user asked for its status
\* and obtained a task of their own
OwnerImmutableWitness ==
    /\ regUser[<<"t","1">>].val = issued[<<"t","1">>]
    /\ regUser[<<"t","1">>].ttl < TTL
    /\ regStatus[<<"t","1">>].val = "COMPLETED"
    /\ regUser[<<"t","2">>].val # EmptyStr
    /\ regUser[<<"t","2">>].val # regUser[<<"t","1">>].val
    /\ regUser[<<"t","2">>].ttl = TTL
    /\ \E w \in Workers : wk[w].pc = "finally" /\ ~wk[w].failed

\* ---- failures inside the callback's try block
\* the invocation entered the try block and one of its steps raised
StepRaised(c) == c.user_id # EmptyStr /\ c.pc \in {"except", "done"} /\ "log_success" \notin c.effects

\* C21: an invocation in which a step of the try block raised has written no
\* COMPLETED, and when it returns its writes are PROCESSING then FAILED and
\* its response the acknowledgement, whether or not the FAILED operation log
\* could be written
StepFailureEndsFailed ==
    \A i \in Inv :
        StepRaised(cb[i]) =>
            /\ \A n \in 1..Len(cb[i].writes) : cb[i].writes[n] # "COMPLETED"
            /\ cb[i].pc = "done" =>
                   cb[i].writes = <<"PROCESSING", "FAILED">> /\ cb[i].resp = Success

StepFailureEndsFailedWitness ==
    \E i \in Inv :
        /\ cb[i].pc = "done" /\ cb[i].handler = "video2"
        /\ cb[i].effects = {"download", "thumbnail", "upload_video"}
        /\ cb[i].writes = <<"PROCESSING", "FAILED">>
        /\ regStatus[cb[i].task_id].val = "FAILED"

\* C26: an invocation that passed the payload check and returned has a
\* terminal status as its last write; and when no invocation for a task is
\* in flight, the status of a task a callback has written is COMPLETED or
\* FAILED, not PROCESSING
NoTaskLeftProcessing ==
    /\ \A i \in Inv :
           cb[i].pc = "done" /\ cb[i].writes # <<>> =>
               cb[i].writes[Len(cb[i].writes)] \in Terminal
    /\ \A t \in TaskIds :
           (\A i \in Inv : cb[i].pc \in {"idle", "done"} \/ cb[i].task_id # t)
               => regStatus[t].val # "PROCESSING"

\* two invocations for the same task ran interleaved, one failed and one
\* completed, and both have returned
NoTaskLeftProcessingWitness ==
    \E i \in Inv, j \in Inv :
        /\ cb[i].pc = "done" /\ cb[j].pc = "done" /\ cb[i].task_id = cb[j].task_id
        /\ cb[i].writes = <<"PROCESSING", "COMPLETED">>
        /\ cb[j].writes = <<"PROCESSING", "FAILED">>
        /\ regStatus[cb[i].task_id].val = "FAILED"

\* C27: an invocation whose last status write is FAILED has pushed no job
FailedInvocationEnqueuedNothing ==
    \A i \in Inv :
        cb[i].pc = "done" /\ cb[i].writes # <<>> /\ cb[i].writes[Len(cb[i].writes)] = "FAILED"
            => "lpush" \notin cb[i].effects

\* ---- worker failures
\* C22: the step in which a stage of a job fails stores nothing and pushes
\* nothing and takes the loop to the cleanup of process_job; the next step of
\* that loop returns it to the idle loop with the job forgotten, again
\* storing and pushing nothing; a loop with a failed job is always at that
\* cleanup and able to leave it
FailedJobIsAbandoned ==
    /\ [][\A w \in Workers :
             wk'[w] # wk[w] /\ (wk[w].failed \/ wk'[w].failed) =>
                 /\ storage' = storage
                 /\ queue' = queue
                 /\ wk'[w] = IF wk[w].failed THEN IdleWk
                              ELSE [wk'[w] EXCEPT !.pc = "finally"] ]_vars
    /\ [](\A w \in Workers : wk[w].failed => wk[w].pc = "finally" /\ ENABLED WFinally(w))

\* a transcode failed after the caption was made, nothing is at output_key,
\* and the next job waits in the queue
FailedJobIsAbandonedWitness ==
    \E w \in Workers :
        /\ wk[w].pc = "finally" /\ wk[w].failed /\ wk[w].caption # "none"
        /\ wk[w].output_key \notin storage
        /\ queue # <<>>

\* C23: whatever happens to the caption subprocess, the job goes on to the
\* transcode with a caption that is not empty: a job that leaves the caption
\* and transcode step, aborted or not, carries the tool's caption or the
\* default one
CaptionFailureNeverAborts ==
    [][\A w \in Workers :
          wk[w].pc = "caption" /\ wk'[w].pc # "caption"
              => wk'[w].caption \in {"json", DefaultCaption}]_vars

\* C24: a job a worker loop has popped is eventually finished or abandoned:
\* the loop is back in its idle loop, whatever the transcode tool does
PoppedJobEventuallyEnds ==
    \A w \in Workers : (wk[w].pc = "download") ~> (wk[w].pc = "idle")

\* C25: a callback invocation that has returned, and a worker loop that is
\* back in its idle loop, have none of their temporary files left, however
\* the invocation or the job ended
NoTemporaryFileRemains ==
    /\ \A i \in Inv : cb[i].pc \in {"idle", "done"} => cb[i].tmp = {}
    /\ \A w \in Workers : wk[w].pc = "idle" => wk[w].tmp = {}

\* an invocation whose FAILED write raised has returned, and the loop has
\* dropped a malformed message, with no file left behind
NoTemporaryFileRemainsWitness ==
    /\ \E i \in Inv :
           /\ cb[i].pc = "done" /\ cb[i].resp = ServerError
           /\ cb[i].user_id # EmptyStr /\ cb[i].tmp = {}
    /\ \E w \in Workers : wk[w].pc = "idle" /\ wk[w].dropped /\ wk[w].tmp = {}

=============================================================================
